---- MODULE Spec2Model ----
(***************************************************************************)
(* MCPToolsManagerV2 (src/src/aurawell/langchain_agent/                    *)
(* mcp_tools_manager_v2.py): the smart tool-call dispatcher with mode      *)
(* based fallback, the per-tool performance tracker and the workflow       *)
(* runner.                                                                 *)
(*                                                                         *)
(* EnhancedMCPTools, the placeholder interface and the workflow registry   *)
(* of the base class MCPToolsManager are imported by the source file but   *)
(* are not part of it; they are modelled from spec.md (sections 4.1-4.3,   *)
(* 8) and marked as such below.  Strings of the source that are not ASCII  *)
(* are written in English.                                                 *)
(***************************************************************************)
EXTENDS Integers, Sequences, FiniteSets, TLC

(* ---------------------------------------------------------------- bounds *)

\* direct call_tool_smart calls made by callers of the manager
MaxDispatch == 2
\* execute_workflow_v2 runs
MaxRuns == 2
\* direct _update_performance_stats calls
MaxRecords == 3
\* execution times recorded by the tracker are 0..MaxDuration time units
MaxDuration == 2
\* operations started by callers where all operations of the manager mix
MaxOps == 4
\* the largest number of tools the real interface lists
MaxTools == 2

VARIABLES
    tool_mode,               \* self.tool_mode
    enhanced_mode,           \* the mode self.enhanced_tools was built with
    real_mcp_interface,      \* TRUE when the real interface is initialised
    enhanced_faulty,         \* environment: enhanced_tools.call_tool may raise
    workflows,               \* self.workflows, the workflow registry
    tool_performance_stats,  \* self.tool_performance_stats
    recorded,                \* history: the record calls made, per tool name
    dispatch_count,          \* history: call_tool_smart calls made so far
    direct_calls,            \* history: of these, the ones made by callers
    last_call,               \* history: the last call_tool_smart call
    last_init,               \* history: how the last initialize() ended
    wf_pc,                   \* execute_workflow_v2: "idle", "running", "done"
    wf_name,                 \* its workflow_name
    wf_input,                \* its user_input
    wf_idx,                  \* the step the for loop is at
    wf_results,              \* its local results
    wf_summary,              \* its local execution_summary
    wf_steps,                \* history: what each step dispatched and got
    wf_result,               \* the WorkflowResult it returned
    wf_runs,                 \* history: runs started so far
    last_real,               \* history: the last direct _call_real_mcp_tool call
    last_report,             \* what the last get_performance_report() returned
    last_health,             \* what the last health_check() returned
    last_cleanup,            \* history: how the last cleanup() ended
    _mcp_tools_manager_v2,   \* the module global: NoInstance, or the instance
    accessor_pc,             \* per task: where its accessor call is
    accessor_got,            \* history: per task, the instance state it got back
    initialize_runs          \* history: initialize() calls the accessor made

vars == <<tool_mode, enhanced_mode, real_mcp_interface, enhanced_faulty,
          workflows, tool_performance_stats, recorded, dispatch_count,
          direct_calls, last_call, last_init, wf_pc, wf_name, wf_input,
          wf_idx, wf_results, wf_summary, wf_steps, wf_result, wf_runs,
          last_real, last_report, last_health, last_cleanup,
          _mcp_tools_manager_v2, accessor_pc, accessor_got, initialize_runs>>

(* ----------------------------------------------------------------- modes *)

ToolMode == {"real_mcp", "placeholder", "hybrid"}

ToolExecutionMode == {"REAL", "PLACEHOLDER", "HYBRID"}

\* the mapping with its first two entries exchanged
EnhancedModeOf_Swapped(mode) ==
    IF mode = "real_mcp" THEN "PLACEHOLDER"
    ELSE IF mode = "placeholder" THEN "REAL"
    ELSE "HYBRID"

\* __init__ with the PLACEHOLDER branch lost
EnhancedModeOf_NoPlaceholder(mode) ==
    IF mode = "real_mcp" THEN "REAL" ELSE "HYBRID"

\* __init__ with the default REAL instead of HYBRID
EnhancedModeOf_DefaultReal(mode) ==
    IF mode = "placeholder" THEN "PLACEHOLDER" ELSE "REAL"

\* __init__: the ToolExecutionMode the enhanced tools are built with
EnhancedModeOf(mode) ==
    IF mode = "real_mcp" THEN "REAL"
    ELSE IF mode = "placeholder" THEN "PLACEHOLDER"
    ELSE "HYBRID"

\* call_tool_smart: mode_mapping.get(mode_used, ToolMode.PLACEHOLDER)
ModeMapping(mode_used) ==
    CASE mode_used = "REAL" -> "real_mcp"
      [] mode_used = "PLACEHOLDER" -> "placeholder"
      [] mode_used = "HYBRID" -> "hybrid"
      [] OTHER -> "placeholder"

(* ---------------------------------------------------------------- values *)

\* Optional[str] error: None
NoError == [kind |-> "none", detail |-> ""]

NoData == [source |-> "none", op |-> "", args |-> <<>>]

\* parameters.get(key, default)
Get(parameters, key, default) ==
    IF key \in DOMAIN parameters THEN parameters[key] ELSE default

EmptyParams == [k \in {} |-> ""]

\* an exception raised by the call
Raise(kind, detail) ==
    [raised |-> TRUE, error |-> [kind |-> kind, detail |-> detail],
     data |-> NoData, op |-> "none"]

\* one operation of the real interface: it returns data or raises
RealBackendCall(op, args, realOk) ==
    IF realOk
    THEN [raised |-> FALSE, error |-> NoError,
          data |-> [source |-> "real", op |-> op, args |-> args], op |-> op]
    ELSE [raised |-> TRUE, error |-> [kind |-> "BackendError", detail |-> op],
          data |-> NoData, op |-> op]

(* ------------------------------------------------------------- real path *)

_call_real_database(action, parameters, realOk) ==
    IF action = "query"
    THEN RealBackendCall("database_query", <<Get(parameters, "sql", "")>>, realOk)
    ELSE Raise("ValueError", "unsupported database operation: " \o action)

_call_real_calculator(action, parameters, realOk) ==
    IF action = "calculate"
    THEN RealBackendCall("calculator_calculate",
                         <<Get(parameters, "expression", "")>>, realOk)
    ELSE Raise("ValueError", "unsupported calculator operation: " \o action)

_call_real_search(action, parameters, realOk) ==
    IF action = "search"
    THEN RealBackendCall("brave_search",
                         <<Get(parameters, "query", ""),
                           Get(parameters, "count", "5")>>, realOk)
    ELSE Raise("ValueError", "unsupported search operation: " \o action)

_call_real_filesystem(action, parameters, realOk) ==
    IF action = "read_file"
    THEN RealBackendCall("filesystem_read", <<Get(parameters, "path", "")>>, realOk)
    ELSE IF action = "write_file"
    THEN RealBackendCall("filesystem_write",
                         <<Get(parameters, "path", ""),
                           Get(parameters, "content", "")>>, realOk)
    ELSE Raise("ValueError", "unsupported filesystem operation: " \o action)

\* the time adapter forwarding every action to the backend
_call_real_time_AnyAction(action, parameters, realOk) ==
    RealBackendCall("get_current_time", <<>>, realOk)

_call_real_time(action, parameters, realOk) ==
    IF action = "get_time"
    THEN RealBackendCall("get_current_time", <<>>, realOk)
    ELSE Raise("ValueError", "unsupported time operation: " \o action)

\* tool_mapping, applied
RealAdapter(tool_name, action, parameters, realOk) ==
    CASE tool_name = "database_sqlite" -> _call_real_database(action, parameters, realOk)
      [] tool_name = "calculator" -> _call_real_calculator(action, parameters, realOk)
      [] tool_name = "brave_search" -> _call_real_search(action, parameters, realOk)
      [] tool_name = "filesystem" -> _call_real_filesystem(action, parameters, realOk)
      [] tool_name = "time" -> _call_real_time(action, parameters, realOk)
      [] OTHER -> RealBackendCall("call_tool", <<action>>, realOk)

ErrUninitialized == [kind |-> "RuntimeError",
                     detail |-> "real MCP interface not initialized"]

\* _call_real_mcp_tool without its guard: the call goes to None
_call_real_mcp_tool_NoGuard(iface, tool_name, action, parameters, realOk) ==
    IF ~iface
    THEN Raise("AttributeError", "NoneType object has no attribute")
    ELSE RealAdapter(tool_name, action, parameters, realOk)

_call_real_mcp_tool(iface, tool_name, action, parameters, realOk) ==
    IF ~iface
    THEN [raised |-> TRUE, error |-> ErrUninitialized, data |-> NoData,
          op |-> "none"]
    ELSE RealAdapter(tool_name, action, parameters, realOk)

(* ------------------------------------------------------ placeholder path *)

\* placeholder_interface.call_tool: it returns mock data or fails (timeout)
PlaceholderCall(tool_name, action, parameters, phOk) ==
    IF phOk
    THEN [raised |-> FALSE, error |-> NoError,
          data |-> [source |-> "placeholder", op |-> tool_name \o "." \o action,
                    args |-> <<>>],
          op |-> "placeholder"]
    ELSE Raise("PlaceholderError", "placeholder call failed")

(* ------------------------------------------- enhanced tools (spec.md 4.2) *)

\* what the backends and the enhanced layer do during one call
Behaviours ==
    {b \in [realOk : BOOLEAN, phOk : BOOLEAN, fault : BOOLEAN] :
        b.fault => (enhanced_faulty /\ b.realOk /\ b.phOk)}

NotTried == [raised |-> FALSE, error |-> NoError, data |-> NoData, op |-> "none"]

NoEnhancedResult ==
    [success |-> FALSE, data |-> NoData, tool_name |-> "", mode_used |-> "none",
     error |-> NoError, execution_time |-> 0]

\* the exception of an enhanced call that raises
EnhancedFault == [kind |-> "Exception", detail |-> "enhanced call failed"]

\* the enhanced result of backend outcome r, produced by backend mode_used
EnhancedResult(r, tool_name, mode_used, attempts) ==
    [success |-> ~r.raised, data |-> r.data, tool_name |-> tool_name,
     mode_used |-> mode_used, error |-> r.error, execution_time |-> attempts]

\* EnhancedMCPTools.call_tool: REAL -> real only, PLACEHOLDER -> placeholder
\* only, HYBRID -> real and, when it fails for any reason, placeholder.  It
\* converts a backend failure into a non-success result.  attempted, real
\* and placeholder are history: the paths tried and what each did.
EnhancedCallTool(mode, iface, tool_name, action, parameters, b) ==
    LET real == _call_real_mcp_tool(iface, tool_name, action, parameters, b.realOk)
        ph == PlaceholderCall(tool_name, action, parameters, b.phOk)
    IN  IF b.fault
        THEN [raised |-> TRUE, exception |-> EnhancedFault,
              value |-> NoEnhancedResult, attempted |-> <<>>,
              real |-> NotTried, placeholder |-> NotTried]
        ELSE IF mode = "PLACEHOLDER"
        THEN [raised |-> FALSE, exception |-> NoError,
              value |-> EnhancedResult(ph, tool_name, "PLACEHOLDER", 1),
              attempted |-> <<"placeholder">>,
              real |-> NotTried, placeholder |-> ph]
        ELSE IF mode = "REAL" \/ ~real.raised
        THEN [raised |-> FALSE, exception |-> NoError,
              value |-> EnhancedResult(real, tool_name, "REAL", 1),
              attempted |-> <<"real">>,
              real |-> real, placeholder |-> NotTried]
        ELSE [raised |-> FALSE, exception |-> NoError,
              value |-> EnhancedResult(ph, tool_name, "PLACEHOLDER", 2),
              attempted |-> <<"real", "placeholder">>,
              real |-> real, placeholder |-> ph]

(* ------------------------------------------------------- call_tool_smart *)

NoResult ==
    [success |-> FALSE, result |-> NoData, tool_name |-> "", mode_used |-> "none",
     error |-> NoError, execution_time |-> 0]

\* the conversion with the error dropped
ToolCallResult_NoError(enhanced_result) ==
    [success |-> enhanced_result.success,
     result |-> enhanced_result.data,
     tool_name |-> enhanced_result.tool_name,
     mode_used |-> ModeMapping(enhanced_result.mode_used),
     error |-> NoError,
     execution_time |-> enhanced_result.execution_time]

\* call_tool_smart: the ToolCallResult built from the enhanced result
ToolCallResult(enhanced_result) ==
    [success |-> enhanced_result.success,
     result |-> enhanced_result.data,
     tool_name |-> enhanced_result.tool_name,
     mode_used |-> ModeMapping(enhanced_result.mode_used),
     error |-> enhanced_result.error,
     execution_time |-> enhanced_result.execution_time]

\* call_tool_smart(tool_name, action, parameters) under behaviour b: what the
\* caller gets (a result, or the exception of the enhanced call), with the
\* history of the call
call_tool_smart(tool_name, action, parameters, b) ==
    LET e == EnhancedCallTool(enhanced_mode, real_mcp_interface,
                              tool_name, action, parameters, b)
    IN  [tool_name |-> tool_name, action |-> action, parameters |-> parameters,
         raised |-> e.raised, exception |-> e.exception,
         result |-> IF e.raised THEN NoResult ELSE ToolCallResult(e.value),
         attempted |-> e.attempted, real |-> e.real, placeholder |-> e.placeholder,
         iface |-> real_mcp_interface]

NoCall ==
    [tool_name |-> "", action |-> "", parameters |-> EmptyParams,
     raised |-> FALSE, exception |-> NoError, result |-> NoResult,
     attempted |-> <<>>,
     real |-> NotTried, placeholder |-> NotTried, iface |-> FALSE]

(* --------------------------------------------------- performance tracker *)

\* total_execution_time / total_calls, as the exact quotient
Quotient(a, b) == [num |-> a, den |-> b]

\* equality of two quotients
SameQuotient(x, y) == x.num * y.den = y.num * x.den

NewStats ==
    [total_calls |-> 0, successful_calls |-> 0, failed_calls |-> 0,
     total_execution_time |-> 0, average_execution_time |-> Quotient(0, 1)]

NoStats == [t \in {} |-> NewStats]

\* the average taken before the time of this call is added
_update_performance_stats_StaleAverage(stats, tool_name, success, execution_time) ==
    LET base == IF tool_name \in DOMAIN stats THEN stats
                ELSE stats @@ (tool_name :> NewStats)
        s == base[tool_name]
    IN  [base EXCEPT ![tool_name] =
            [total_calls |-> s.total_calls + 1,
             total_execution_time |-> s.total_execution_time + execution_time,
             average_execution_time |->
                 Quotient(s.total_execution_time, s.total_calls + 1),
             successful_calls |-> s.successful_calls + (IF success THEN 1 ELSE 0),
             failed_calls |-> s.failed_calls + (IF success THEN 0 ELSE 1)]]

\* a call without duration is not counted once the tool has an entry
_update_performance_stats_SkipZero(stats, tool_name, success, execution_time) ==
    LET base == IF tool_name \in DOMAIN stats THEN stats
                ELSE stats @@ (tool_name :> NewStats)
        s == base[tool_name]
    IN  IF s.total_calls > 0 /\ execution_time = 0
        THEN base
        ELSE [base EXCEPT ![tool_name] =
                [total_calls |-> s.total_calls + 1,
                 total_execution_time |-> s.total_execution_time + execution_time,
                 average_execution_time |->
                     Quotient(s.total_execution_time + execution_time,
                              s.total_calls + 1),
                 successful_calls |-> s.successful_calls + (IF success THEN 1 ELSE 0),
                 failed_calls |-> s.failed_calls + (IF success THEN 0 ELSE 1)]]

\* _update_performance_stats: the statistics map after the call
_update_performance_stats(stats, tool_name, success, execution_time) ==
    LET base == IF tool_name \in DOMAIN stats THEN stats
                ELSE stats @@ (tool_name :> NewStats)
        s == base[tool_name]
    IN  [base EXCEPT ![tool_name] =
            [total_calls |-> s.total_calls + 1,
             total_execution_time |-> s.total_execution_time + execution_time,
             average_execution_time |->
                 Quotient(s.total_execution_time + execution_time,
                          s.total_calls + 1),
             successful_calls |-> s.successful_calls + (IF success THEN 1 ELSE 0),
             failed_calls |-> s.failed_calls + (IF success THEN 0 ELSE 1)]]

(* ------------------------------------------------------- workflow runner *)

\* the reserved template token
Token == "{{user_input}}"

\* the registry of the base class: the daily_checkin scenario of spec.md 8,
\* a workflow whose two steps share tool and action and carry the token under
\* the key user_input, and a workflow without steps
InitialWorkflows ==
    [n \in {"daily_checkin", "double_check", "no_steps"} |->
        CASE n = "daily_checkin" ->
               [tools |-> <<[tool |-> "clock", action |-> "get_time",
                            parameters |-> EmptyParams],
                           [tool |-> "calculator", action |-> "calculate",
                            parameters |-> ("expression" :> Token)]>>]
          [] n = "double_check" ->
               [tools |-> <<[tool |-> "calculator", action |-> "calculate",
                            parameters |-> ("user_input" :> Token)],
                           [tool |-> "calculator", action |-> "calculate",
                            parameters |-> ("user_input" :> Token)]>>]
          [] OTHER -> [tools |-> <<>>]]

\* the workflow names and user inputs callers pass
WorkflowNames == {"daily_checkin", "double_check", "no_steps", "nonexistent"}

UserInputs == {"2+2", "3*3"}

\* not self.workflows.get(workflow_name): no entry under the name (an entry
\* of the registry is a non-empty mapping)
NotConfigured(registry, workflow_name) ==
    workflow_name \notin DOMAIN registry

NoMetadata == [tool_mode |-> "", total_steps |-> 0, completed_steps |-> 0]

NoResults == [k \in {} |-> NoData]

NoWorkflowResult ==
    [success |-> FALSE, workflow_name |-> "", results |-> NoResults,
     execution_summary |-> <<>>, metadata |-> NoMetadata]

\* the not-found result reporting success
NotFoundResult_Success(workflow_name) ==
    [success |-> TRUE, workflow_name |-> workflow_name, results |-> NoResults,
     execution_summary |-> <<"workflow configuration not found">>,
     metadata |-> NoMetadata]

\* execute_workflow_v2: the result for a workflow that is not configured
NotFoundResult(workflow_name) ==
    [success |-> FALSE, workflow_name |-> workflow_name, results |-> NoResults,
     execution_summary |-> <<"workflow configuration not found">>,
     metadata |-> NoMetadata]

\* execute_workflow_v2: the parameter substitution of one step
Substitute(parameters, user_input) ==
    IF "user_input" \in DOMAIN parameters /\ parameters["user_input"] = Token
    THEN [parameters EXCEPT !["user_input"] = user_input]
    ELSE parameters

\* f"{tool_name}_{action}"
ResultKey(tool_name, action) == tool_name \o "_" \o action

\* results[key] = data
Store(results, key, data) ==
    IF key \in DOMAIN results THEN [results EXCEPT ![key] = data]
    ELSE results @@ (key :> data)

\* the line appended when call_tool_smart returned
SuccessLine(tool_name, action, result) ==
    "OK " \o tool_name \o "." \o action \o " (" \o result.mode_used \o ") - "
        \o ToString(result.execution_time) \o "s"

\* the line appended when call_tool_smart raised
FailureLine(tool_name, action, exception) ==
    "FAIL " \o tool_name \o "." \o action \o " failed: " \o exception.detail

\* the success line left out when the result is not a success
AppendLine_SkipFailed(summary, tool_name, action, call) ==
    IF call.raised
    THEN Append(summary, FailureLine(tool_name, action, call.exception))
    ELSE IF call.result.success
    THEN Append(summary, SuccessLine(tool_name, action, call.result))
    ELSE summary

\* execute_workflow_v2: the line one step appends to execution_summary
AppendLine(summary, tool_name, action, call) ==
    IF call.raised
    THEN Append(summary, FailureLine(tool_name, action, call.exception))
    ELSE Append(summary, SuccessLine(tool_name, action, call.result))

\* total_steps counted from the steps that stored a result
CompletedResult_CountsDispatched(workflow_name, results, summary, mode, total, steps) ==
    [success |-> TRUE,
     workflow_name |-> workflow_name, results |-> results,
     execution_summary |-> summary,
     metadata |-> [tool_mode |-> mode,
                   total_steps |-> Cardinality(DOMAIN results),
                   completed_steps |-> Cardinality(DOMAIN results)]]

\* the result that reports success only when every step succeeded
CompletedResult_AllOrNothing(workflow_name, results, summary, mode, total, steps) ==
    [success |-> \A i \in 1..Len(steps) : steps[i].outcome = "ok",
     workflow_name |-> workflow_name, results |-> results,
     execution_summary |-> summary,
     metadata |-> [tool_mode |-> mode, total_steps |-> total,
                   completed_steps |-> Cardinality(DOMAIN results)]]

\* execute_workflow_v2: the result returned once the loop is over
CompletedResult(workflow_name, results, summary, mode, total, steps) ==
    [success |-> TRUE,
     workflow_name |-> workflow_name, results |-> results,
     execution_summary |-> summary,
     metadata |-> [tool_mode |-> mode, total_steps |-> total,
                   completed_steps |-> Cardinality(DOMAIN results)]]

\* the loop left at the first step that raises
NextStep_StopOnRaise(idx, total, raised) ==
    IF raised THEN total + 1 ELSE idx + 1

\* execute_workflow_v2: the for loop goes on to the next step
NextStep(idx, total, raised) == idx + 1

(* --------------------------------------------- report, health, cleanup *)

NoRealCall ==
    [tool_name |-> "", action |-> "", iface |-> FALSE, outcome |-> NotTried]

NoReport ==
    [tool_mode |-> "", enhanced_tools_report |-> EmptyParams,
     legacy_stats |-> NoStats, summary |-> EmptyParams, recommendations |-> <<>>]

\* iface and listing are history: whether health_check found a real
\* interface, and how list_available_tools() ended
NoHealth ==
    [tool_mode |-> "", placeholder_interface |-> "", real_mcp_interface |-> "",
     counted |-> FALSE, real_mcp_tools_count |-> 0,
     iface |-> FALSE, listing |-> "none"]

(* ------------------------------------------------------ global accessor *)

\* _mcp_tools_manager_v2 = None
NoInstance == [tool_mode |-> "", initialize |-> "none"]

\* the tasks that call get_mcp_tools_manager_v2
Tasks == {"t1", "t2", "t3"}

\* how initialize() ends in a manager of mode `mode`, initialize_real_interface
\* having ended with `outcome`: it returns ("ok", or "swallowed" after a
\* logged failure) or raises
initialize(mode, outcome) ==
    IF outcome = "ok" THEN "ok"
    ELSE IF mode = "real_mcp" THEN "raised"
    ELSE "swallowed"

(* ------------------------------------------------------------------ Init *)

InitManager ==
    /\ tool_mode \in ToolMode
    /\ enhanced_mode = EnhancedModeOf(tool_mode)
    /\ real_mcp_interface = FALSE
    /\ workflows = InitialWorkflows
    /\ tool_performance_stats = NoStats
    /\ recorded = [t \in {} |-> <<>>]
    /\ dispatch_count = 0
    /\ direct_calls = 0
    /\ last_call = NoCall
    /\ last_init = "none"
    /\ wf_pc = "idle"
    /\ wf_name = ""
    /\ wf_input = ""
    /\ wf_idx = 0
    /\ wf_results = NoResults
    /\ wf_summary = <<>>
    /\ wf_steps = <<>>
    /\ wf_result = NoWorkflowResult
    /\ wf_runs = 0
    /\ last_real = NoRealCall
    /\ last_report = NoReport
    /\ last_health = NoHealth
    /\ last_cleanup = "none"
    /\ _mcp_tools_manager_v2 = NoInstance
    /\ accessor_pc = [t \in Tasks |-> "idle"]
    /\ accessor_got = [t \in Tasks |-> "nothing"]
    /\ initialize_runs = 0

\* the manager after __init__, with enhanced tools that keep spec.md 4.3
Init == InitManager /\ enhanced_faulty = FALSE

\* the same with enhanced tools whose call_tool may raise
InitFaulty == InitManager /\ enhanced_faulty = TRUE

(* --------------------------------------------------------------- actions *)

wfVars == <<wf_pc, wf_name, wf_input, wf_idx, wf_results, wf_summary,
            wf_steps, wf_result, wf_runs>>

statsVars == <<tool_performance_stats, recorded>>

auxVars == <<last_real, last_report, last_health, last_cleanup>>

accessorVars == <<_mcp_tools_manager_v2, accessor_pc, accessor_got, initialize_runs>>

\* initialize(): initialize_real_interface() succeeds, or raises ImportError
\* or another exception; REAL_MCP mode lets the exception through
Initialize(outcome) ==
    /\ ~real_mcp_interface
    /\ wf_pc # "running"
    /\ real_mcp_interface' = (outcome = "ok")
    /\ last_init' = IF outcome = "ok" THEN "ok"
                    ELSE IF tool_mode = "real_mcp" THEN "raised"
                    ELSE "swallowed"
    /\ UNCHANGED accessorVars
    /\ UNCHANGED <<tool_mode, enhanced_mode, enhanced_faulty, workflows,
                   dispatch_count, direct_calls, last_call>>
    /\ UNCHANGED statsVars
    /\ UNCHANGED wfVars
    /\ UNCHANGED auxVars

\* the (tool, action, parameters) callers dispatch: a supported pair, an
\* unsupported action of a mapped tool, an unmapped tool
DispatchInputs ==
    {<<"calculator", "calculate", ("expression" :> "2+2")>>,
     <<"calculator", "sqrt", EmptyParams>>,
     <<"clock", "get_time", EmptyParams>>}

\* a caller awaits call_tool_smart(tool_name, action, parameters)
Dispatch(tool_name, action, parameters, b) ==
    /\ wf_pc # "running"
    /\ direct_calls < MaxDispatch
    /\ last_call' = call_tool_smart(tool_name, action, parameters, b)
    /\ dispatch_count' = dispatch_count + 1
    /\ direct_calls' = direct_calls + 1
    /\ UNCHANGED accessorVars
    /\ UNCHANGED <<tool_mode, enhanced_mode, enhanced_faulty, workflows,
                   real_mcp_interface, last_init>>
    /\ UNCHANGED statsVars
    /\ UNCHANGED wfVars
    /\ UNCHANGED auxVars

\* execute_workflow_v2(workflow_name, user_input, context) up to its first
\* await: the lookup, and the return when there is no step to run
ExecuteWorkflowV2(workflow_name, user_input) ==
    /\ wf_pc # "running"
    /\ wf_runs < MaxRuns
    /\ wf_runs' = wf_runs + 1
    /\ wf_name' = workflow_name
    /\ wf_input' = user_input
    /\ wf_results' = NoResults
    /\ wf_summary' = <<>>
    /\ wf_steps' = <<>>
    /\ IF NotConfigured(workflows, workflow_name)
       THEN /\ wf_pc' = "done"
            /\ wf_idx' = 0
            /\ wf_result' = NotFoundResult(workflow_name)
       ELSE IF Len(workflows[workflow_name].tools) = 0
       THEN /\ wf_pc' = "done"
            /\ wf_idx' = 1
            /\ wf_result' = CompletedResult(workflow_name, NoResults, <<>>,
                                            tool_mode, 0, <<>>)
       ELSE /\ wf_pc' = "running"
            /\ wf_idx' = 1
            /\ wf_result' = NoWorkflowResult
    /\ UNCHANGED accessorVars
    /\ UNCHANGED <<tool_mode, enhanced_mode, enhanced_faulty, workflows,
                   real_mcp_interface, last_init, dispatch_count, direct_calls,
                   last_call>>
    /\ UNCHANGED statsVars
    /\ UNCHANGED auxVars

\* one iteration of the for loop of execute_workflow_v2, and the return after
\* the last one
WorkflowStep(b) ==
    /\ wf_pc = "running"
    /\ LET tools == workflows[wf_name].tools
           step == tools[wf_idx]
           parameters == Substitute(step.parameters, wf_input)
           call == call_tool_smart(step.tool, step.action, parameters, b)
           results == IF call.raised THEN wf_results
                      ELSE Store(wf_results, ResultKey(step.tool, step.action),
                                 call.result.result)
           summary == AppendLine(wf_summary, step.tool, step.action, call)
           steps == Append(wf_steps,
                           [tool |-> step.tool, action |-> step.action,
                            configured |-> step.parameters,
                            parameters |-> parameters,
                            outcome |-> IF call.raised THEN "raised"
                                        ELSE IF call.result.success THEN "ok"
                                        ELSE "failed"])
           next == NextStep(wf_idx, Len(tools), call.raised)
       IN  /\ workflows' = [workflows EXCEPT
                               ![wf_name].tools[wf_idx].parameters = parameters]
           /\ last_call' = call
           /\ dispatch_count' = dispatch_count + 1
           /\ wf_results' = results
           /\ wf_summary' = summary
           /\ wf_steps' = steps
           /\ wf_idx' = next
           /\ IF next > Len(tools)
              THEN /\ wf_pc' = "done"
                   /\ wf_result' = CompletedResult(wf_name, results, summary,
                                                   tool_mode, Len(tools), steps)
              ELSE /\ wf_pc' = "running"
                   /\ wf_result' = wf_result
    /\ UNCHANGED accessorVars
    /\ UNCHANGED <<tool_mode, enhanced_mode, enhanced_faulty, real_mcp_interface,
                   last_init, direct_calls, wf_name, wf_input, wf_runs>>
    /\ UNCHANGED statsVars
    /\ UNCHANGED auxVars

\* the number of record calls made so far
RECURSIVE CountOver(_, _)
CountOver(history, names) ==
    IF names = {} THEN 0
    ELSE LET t == CHOOSE x \in names : TRUE
         IN  Len(history[t]) + CountOver(history, names \ {t})

RecordedCount(history) == CountOver(history, DOMAIN history)

\* a caller invokes _update_performance_stats(tool_name, success, execution_time)
RecordCall(tool_name, success, execution_time) ==
    /\ RecordedCount(recorded) < MaxRecords
    /\ tool_performance_stats' =
           _update_performance_stats(tool_performance_stats, tool_name,
                                     success, execution_time)
    /\ recorded' =
           IF tool_name \in DOMAIN recorded
           THEN [recorded EXCEPT ![tool_name] =
                    Append(@, [success |-> success, execution_time |-> execution_time])]
           ELSE recorded @@
                (tool_name :> <<[success |-> success, execution_time |-> execution_time]>>)
    /\ UNCHANGED accessorVars
    /\ UNCHANGED <<tool_mode, enhanced_mode, enhanced_faulty, workflows,
                   real_mcp_interface, last_init, dispatch_count, direct_calls,
                   last_call>>
    /\ UNCHANGED wfVars
    /\ UNCHANGED auxVars

\* a caller awaits _call_real_mcp_tool(tool_name, action, parameters)
CallRealMcpTool(tool_name, action, parameters, realOk) ==
    /\ last_real' =
           [tool_name |-> tool_name, action |-> action,
            iface |-> real_mcp_interface,
            outcome |-> _call_real_mcp_tool(real_mcp_interface, tool_name,
                                            action, parameters, realOk)]
    /\ UNCHANGED accessorVars
    /\ UNCHANGED <<tool_mode, enhanced_mode, enhanced_faulty, workflows,
                   real_mcp_interface, last_init, dispatch_count, direct_calls,
                   last_call, last_report, last_health, last_cleanup>>
    /\ UNCHANGED statsVars
    /\ UNCHANGED wfVars

\* call_tool_smart over an enhanced call that reports the mode `reported` for
\* data produced by backend `source`
DispatchReporting(tool_name, action, parameters, source, ok, reported) ==
    LET outcome == IF source = "real"
                   THEN RealBackendCall("call_tool", <<action>>, ok)
                   ELSE PlaceholderCall(tool_name, action, parameters, ok)
        enhanced_result == EnhancedResult(outcome, tool_name, reported, 1)
    IN  /\ direct_calls < MaxDispatch
        /\ wf_pc # "running"
        /\ last_call' =
               [tool_name |-> tool_name, action |-> action,
                parameters |-> parameters,
                raised |-> FALSE, exception |-> NoError,
                result |-> ToolCallResult(enhanced_result),
                attempted |-> <<source>>,
                real |-> IF source = "real" THEN outcome ELSE NotTried,
                placeholder |-> IF source = "real" THEN NotTried ELSE outcome,
                iface |-> real_mcp_interface]
        /\ dispatch_count' = dispatch_count + 1
        /\ direct_calls' = direct_calls + 1
        /\ UNCHANGED accessorVars
        /\ UNCHANGED <<tool_mode, enhanced_mode, enhanced_faulty, workflows,
                       real_mcp_interface, last_init>>
        /\ UNCHANGED statsVars
        /\ UNCHANGED wfVars
        /\ UNCHANGED auxVars

\* the advisory strings
LowSuccessAdvice == "success rate is low: check the network connection and API configuration"

NoCallsAdvice == "no tool calls recorded yet: run a functional test"

HybridNote == "hybrid mode is active: the best balance of reliability and performance"

EmptySummary == [k \in {} |-> 0]

\* the low-success-rate rule with <= in place of <
_generate_performance_recommendations_Inclusive(report, mode) ==
    LET summary == Get(report, "summary", EmptySummary)
        success_rate == Get(summary, "success_rate", 100)
        total_calls == Get(summary, "total_calls", 0)
    IN  (IF success_rate <= 90 THEN <<LowSuccessAdvice>> ELSE <<>>)
        \o (IF total_calls = 0 THEN <<NoCallsAdvice>> ELSE <<>>)
        \o (IF mode = "hybrid" THEN <<HybridNote>> ELSE <<>>)

\* _generate_performance_recommendations(report) of a manager in mode `mode`
_generate_performance_recommendations(report, mode) ==
    LET summary == Get(report, "summary", EmptySummary)
        success_rate == Get(summary, "success_rate", 100)
        total_calls == Get(summary, "total_calls", 0)
    IN  (IF success_rate < 90 THEN <<LowSuccessAdvice>> ELSE <<>>)
        \o (IF total_calls = 0 THEN <<NoCallsAdvice>> ELSE <<>>)
        \o (IF mode = "hybrid" THEN <<HybridNote>> ELSE <<>>)

\* get_performance_report(), where enhanced_tools.get_performance_report()
\* returns enhanced_report
GetPerformanceReport(enhanced_report) ==
    /\ last_report' =
           [tool_mode |-> tool_mode,
            enhanced_tools_report |-> enhanced_report,
            legacy_stats |-> tool_performance_stats,
            summary |-> Get(enhanced_report, "summary", EmptySummary),
            recommendations |->
                _generate_performance_recommendations(enhanced_report, tool_mode)]
    /\ UNCHANGED accessorVars
    /\ UNCHANGED <<tool_mode, enhanced_mode, enhanced_faulty, workflows,
                   real_mcp_interface, last_init, dispatch_count, direct_calls,
                   last_call, last_real, last_health, last_cleanup>>
    /\ UNCHANGED statsVars
    /\ UNCHANGED wfVars

\* health_check() that keeps the real interface available when listing fails
HealthCheck_AvailableOnError(listOk, count) ==
    /\ last_health' =
           IF ~real_mcp_interface
           THEN [tool_mode |-> tool_mode, placeholder_interface |-> "available",
                 real_mcp_interface |-> "not_available",
                 counted |-> FALSE, real_mcp_tools_count |-> 0,
                 iface |-> FALSE, listing |-> "none"]
           ELSE [tool_mode |-> tool_mode, placeholder_interface |-> "available",
                 real_mcp_interface |-> "available",
                 counted |-> TRUE, real_mcp_tools_count |-> count,
                 iface |-> TRUE, listing |-> IF listOk THEN "ok" ELSE "raised"]
    /\ UNCHANGED accessorVars
    /\ UNCHANGED <<tool_mode, enhanced_mode, enhanced_faulty, workflows,
                   real_mcp_interface, last_init, dispatch_count, direct_calls,
                   last_call, last_real, last_report, last_cleanup>>
    /\ UNCHANGED statsVars
    /\ UNCHANGED wfVars

\* health_check(), where list_available_tools() returns `count` tools or
\* raises; counted says whether the mapping has the key real_mcp_tools_count
HealthCheck(listOk, count) ==
    /\ last_health' =
           IF ~real_mcp_interface
           THEN [tool_mode |-> tool_mode, placeholder_interface |-> "available",
                 real_mcp_interface |-> "not_available",
                 counted |-> FALSE, real_mcp_tools_count |-> 0,
                 iface |-> FALSE, listing |-> "none"]
           ELSE IF listOk
           THEN [tool_mode |-> tool_mode, placeholder_interface |-> "available",
                 real_mcp_interface |-> "available",
                 counted |-> TRUE, real_mcp_tools_count |-> count,
                 iface |-> TRUE, listing |-> "ok"]
           ELSE [tool_mode |-> tool_mode, placeholder_interface |-> "available",
                 real_mcp_interface |-> "error: list_available_tools failed",
                 counted |-> FALSE, real_mcp_tools_count |-> 0,
                 iface |-> TRUE, listing |-> "raised"]
    /\ UNCHANGED accessorVars
    /\ UNCHANGED <<tool_mode, enhanced_mode, enhanced_faulty, workflows,
                   real_mcp_interface, last_init, dispatch_count, direct_calls,
                   last_call, last_real, last_report, last_cleanup>>
    /\ UNCHANGED statsVars
    /\ UNCHANGED wfVars

\* cleanup() that also empties the statistics map
Cleanup_ResetsStats(ok) ==
    /\ last_cleanup' = IF ~real_mcp_interface THEN "skipped"
                       ELSE IF ok THEN "done"
                       ELSE "raised"
    /\ tool_performance_stats' = NoStats
    /\ UNCHANGED accessorVars
    /\ UNCHANGED <<tool_mode, enhanced_mode, enhanced_faulty, workflows,
                   real_mcp_interface, last_init, dispatch_count, direct_calls,
                   last_call, last_real, last_report, last_health, recorded>>
    /\ UNCHANGED wfVars

\* cleanup(): the real interface, when there is one, is cleaned up; its
\* cleanup() returns or raises
Cleanup(ok) ==
    /\ last_cleanup' = IF ~real_mcp_interface THEN "skipped"
                       ELSE IF ok THEN "done"
                       ELSE "raised"
    /\ UNCHANGED accessorVars
    /\ UNCHANGED <<tool_mode, enhanced_mode, enhanced_faulty, workflows,
                   real_mcp_interface, last_init, dispatch_count, direct_calls,
                   last_call, last_real, last_report, last_health>>
    /\ UNCHANGED statsVars
    /\ UNCHANGED wfVars

\* get_mcp_tools_manager_v2(mode) called by task t, up to its first await or
\* its return: with no instance it creates one, stores it in the global and
\* awaits initialize(); with an instance it returns it as it is
GetManager(t, mode) ==
    /\ accessor_pc[t] # "initializing"
    /\ IF _mcp_tools_manager_v2 = NoInstance
       THEN /\ _mcp_tools_manager_v2' = [tool_mode |-> mode, initialize |-> "running"]
            /\ accessor_pc' = [accessor_pc EXCEPT ![t] = "initializing"]
            /\ accessor_got' = [accessor_got EXCEPT ![t] = "nothing"]
            /\ initialize_runs' = initialize_runs + 1
       ELSE /\ accessor_pc' = [accessor_pc EXCEPT ![t] = "returned"]
            /\ accessor_got' =
                   [accessor_got EXCEPT ![t] = _mcp_tools_manager_v2.initialize]
            /\ UNCHANGED <<_mcp_tools_manager_v2, initialize_runs>>
    /\ UNCHANGED <<tool_mode, enhanced_mode, enhanced_faulty, workflows,
                   real_mcp_interface, last_init, dispatch_count, direct_calls,
                   last_call>>
    /\ UNCHANGED statsVars
    /\ UNCHANGED wfVars
    /\ UNCHANGED auxVars

\* the initialize() that task t awaits in the accessor ends: the accessor
\* returns the instance, or the exception leaves it with the global still set
GetManagerResumes(t, outcome) ==
    /\ accessor_pc[t] = "initializing"
    /\ LET ended == initialize(_mcp_tools_manager_v2.tool_mode, outcome)
       IN  /\ _mcp_tools_manager_v2' =
                  [_mcp_tools_manager_v2 EXCEPT !.initialize = ended]
           /\ accessor_pc' = [accessor_pc EXCEPT ![t] =
                  IF ended = "raised" THEN "raised" ELSE "returned"]
           /\ accessor_got' = [accessor_got EXCEPT ![t] =
                  IF ended = "raised" THEN "exception" ELSE ended]
    /\ UNCHANGED initialize_runs
    /\ UNCHANGED <<tool_mode, enhanced_mode, enhanced_faulty, workflows,
                   real_mcp_interface, last_init, dispatch_count, direct_calls,
                   last_call>>
    /\ UNCHANGED statsVars
    /\ UNCHANGED wfVars
    /\ UNCHANGED auxVars

(* -------------------------------------------------------- specifications *)

InitOutcomes == {"ok", "import_error", "error"}

\* the tool names and durations callers record
RecordTools == {"calculator", "clock"}

Durations == 0..MaxDuration

Next ==
    \/ \E outcome \in InitOutcomes : Initialize(outcome)
    \/ \E d \in DispatchInputs : \E b \in Behaviours : Dispatch(d[1], d[2], d[3], b)
    \/ \E n \in WorkflowNames : \E u \in UserInputs : ExecuteWorkflowV2(n, u)
    \/ \E b \in Behaviours : WorkflowStep(b)

\* the manager with a dispatcher that keeps spec.md 4.3
Spec == Init /\ [][Next]_vars

\* the manager with enhanced tools whose call may raise
SpecFaulty == InitFaulty /\ [][Next]_vars

\* the workflow runner alone: initialize() and workflow runs, no other caller
NextWorkflow ==
    \/ \E outcome \in InitOutcomes : Initialize(outcome)
    \/ \E n \in WorkflowNames : \E u \in UserInputs : ExecuteWorkflowV2(n, u)
    \/ \E b \in Behaviours : WorkflowStep(b)

\* workflow runs over enhanced tools whose call may raise, where every awaited
\* step of a running workflow returns
FairSpec ==
    /\ InitFaulty
    /\ [][NextWorkflow]_vars
    /\ WF_vars(\E b \in Behaviours : WorkflowStep(b))

NextStats ==
    \E t \in RecordTools : \E ok \in BOOLEAN : \E d \in Durations : RecordCall(t, ok, d)

\* the performance tracker driven by record calls
SpecStats == Init /\ [][NextStats]_vars

\* the (tool, action) pairs callers pass to the real path: the five mapped
\* tools and an unmapped one, the supported actions and an unsupported one
RealTools ==
    {"database_sqlite", "calculator", "brave_search", "filesystem", "time", "clock"}

RealActions ==
    {"query", "calculate", "search", "read_file", "write_file", "get_time", "delete"}

NextReal ==
    \/ \E outcome \in InitOutcomes : Initialize(outcome)
    \/ \E t \in RealTools : \E a \in RealActions : \E ok \in BOOLEAN :
           CallRealMcpTool(t, a, EmptyParams, ok)

\* the real path driven by direct calls
SpecReal == Init /\ [][NextReal]_vars

\* what an enhanced call may report for data of backend `source`: that
\* backend, the configured HYBRID mode, or a value mode_mapping does not know
Reported(source) ==
    {IF source = "real" THEN "REAL" ELSE "PLACEHOLDER", "HYBRID", "UNKNOWN"}

NextAnyEnhanced ==
    \E d \in DispatchInputs : \E source \in {"real", "placeholder"} :
        \E ok \in BOOLEAN : \E reported \in Reported(source) :
            DispatchReporting(d[1], d[2], d[3], source, ok, reported)

\* call_tool_smart over enhanced tools that report any of these modes
SpecAnyEnhanced == Init /\ [][NextAnyEnhanced]_vars

\* the reports enhanced_tools.get_performance_report() returns: without a
\* summary, or with a summary that has each of its two keys or not
Summaries ==
    {(IF hasRate THEN ("success_rate" :> rate) ELSE EmptySummary)
        @@ (IF hasTotal THEN ("total_calls" :> total) ELSE EmptySummary) :
     hasRate \in BOOLEAN, rate \in {0, 50, 89, 90, 91, 100},
     hasTotal \in BOOLEAN, total \in {0, 1, 2, 7}}

Reports == {[k \in {} |-> EmptySummary]} \cup {("summary" :> x) : x \in Summaries}

NextReport ==
    \/ \E outcome \in InitOutcomes : Initialize(outcome)
    \/ \E r \in Reports : GetPerformanceReport(r)

\* the report driven by get_performance_report calls
SpecReport == Init /\ [][NextReport]_vars

NextHealth ==
    \/ \E outcome \in InitOutcomes : Initialize(outcome)
    \/ \E d \in DispatchInputs : \E b \in Behaviours : Dispatch(d[1], d[2], d[3], b)
    \/ \E listOk \in BOOLEAN : \E count \in 0..MaxTools : HealthCheck(listOk, count)
    \/ \E ok \in BOOLEAN : Cleanup(ok)

\* the manager under dispatches, health checks and cleanups
SpecHealth == Init /\ [][NextHealth]_vars

NextAccessor ==
    \/ \E t \in Tasks : \E mode \in ToolMode : GetManager(t, mode)
    \/ \E t \in Tasks : \E outcome \in InitOutcomes : GetManagerResumes(t, outcome)

\* tasks of one event loop calling the accessor
SpecAccessor == Init /\ [][NextAccessor]_vars

\* the operations callers have started so far
OpsStarted ==
    direct_calls + wf_runs + RecordedCount(recorded)
    + (IF last_init # "none" THEN 1 ELSE 0)
    + (IF last_report # NoReport THEN 1 ELSE 0)
    + (IF last_health # NoHealth THEN 1 ELSE 0)
    + (IF last_cleanup # "none" THEN 1 ELSE 0)

\* every operation of the manager, each over one or two inputs; a caller
\* starts one while the budget lasts, a running workflow always goes on
NextOps ==
    \/ OpsStarted < MaxOps /\ \E outcome \in {"ok", "error"} : Initialize(outcome)
    \/ OpsStarted < MaxOps /\ \E b \in Behaviours :
           Dispatch("calculator", "calculate", ("expression" :> "2+2"), b)
    \/ OpsStarted < MaxOps /\ \E n \in {"daily_checkin", "nonexistent"} :
           ExecuteWorkflowV2(n, "2+2")
    \/ \E b \in Behaviours : WorkflowStep(b)
    \/ OpsStarted < MaxOps /\ \E ok \in BOOLEAN : RecordCall("calculator", ok, 1)
    \/ OpsStarted < MaxOps /\
           \E r \in {[k \in {} |-> EmptySummary],
                     ("summary" :> ("success_rate" :> 50 @@ "total_calls" :> 2))} :
               GetPerformanceReport(r)
    \/ OpsStarted < MaxOps /\ \E listOk \in BOOLEAN : HealthCheck(listOk, MaxTools)
    \/ OpsStarted < MaxOps /\ \E ok \in BOOLEAN : Cleanup(ok)

\* the manager under all of its operations
SpecOps == Init /\ [][NextOps]_vars

(* ---------------------------------------------------------------- claims *)

\* whether path p was tried during call c
Tried(c, p) == \E i \in 1..Len(c.attempted) : c.attempted[i] = p

\* C1: in Hybrid mode, a dispatch whose real path raised (the backend raised,
\* the action was unsupported or the interface was uninitialised) went on to
\* attempt the placeholder; when that placeholder call succeeded the returned
\* result has success = TRUE and mode_used = Placeholder.
C1_HybridFallsBack ==
    (dispatch_count > 0 /\ tool_mode = "hybrid" /\ last_call.real.raised) =>
        /\ last_call.attempted = <<"real", "placeholder">>
        /\ ~last_call.placeholder.raised =>
               /\ last_call.result.success
               /\ last_call.result.mode_used = "placeholder"

C1_Witness ==
    /\ dispatch_count > 0
    /\ tool_mode = "hybrid"
    /\ last_call.iface
    /\ last_call.real.raised
    /\ last_call.real.error.kind = "BackendError"
    /\ ~last_call.placeholder.raised
    /\ last_call.result.success
    /\ last_call.result.result.source = "placeholder"

\* C2: in Real mode, a dispatch whose real path raised returns a result with
\* success = FALSE and an error that is not empty, and the placeholder was not
\* invoked during the call.
C2_RealModeSurfacesFailure ==
    (dispatch_count > 0 /\ tool_mode = "real_mcp" /\ last_call.real.raised) =>
        /\ ~last_call.raised
        /\ ~last_call.result.success
        /\ last_call.result.error # NoError
        /\ last_call.result.error.detail # ""
        /\ ~Tried(last_call, "placeholder")

C2_Witness ==
    /\ dispatch_count > 0
    /\ tool_mode = "real_mcp"
    /\ last_call.iface
    /\ last_call.real.raised
    /\ last_call.real.op = "calculator_calculate"
    /\ ~last_call.result.success
    /\ last_call.attempted = <<"real">>

\* C3: in Placeholder mode every dispatch, made by a caller or by a workflow
\* step, returns mode_used = Placeholder, and neither the real path nor a real
\* backend operation was invoked during it.
C3_PlaceholderOnly ==
    (dispatch_count > 0 /\ tool_mode = "placeholder") =>
        /\ last_call.result.mode_used = "placeholder"
        /\ ~Tried(last_call, "real")
        /\ last_call.real = NotTried

C3_Witness ==
    /\ tool_mode = "placeholder"
    /\ real_mcp_interface
    /\ direct_calls > 0
    /\ wf_pc = "running"
    /\ Len(wf_steps) = 1
    /\ last_call.tool_name = "clock"
    /\ last_call.result.mode_used = "placeholder"

RECURSIVE TotalCallsOver(_, _)
TotalCallsOver(stats, names) ==
    IF names = {} THEN 0
    ELSE LET t == CHOOSE x \in names : TRUE
         IN  stats[t].total_calls + TotalCallsOver(stats, names \ {t})

SumTotalCalls(stats) == TotalCallsOver(stats, DOMAIN stats)

\* C5: every dispatch records its outcome once in the manager's statistics
\* map, so after n dispatch calls the total_calls of all tools sum to n.
C5_EveryDispatchRecorded ==
    SumTotalCalls(tool_performance_stats) = dispatch_count

\* C6: for every entry of the statistics map, successful_calls + failed_calls
\* = total_calls, and when total_calls > 0 the average execution time is
\* total_execution_time / total_calls.
C6_StatsInvariant ==
    \A t \in DOMAIN tool_performance_stats :
        LET s == tool_performance_stats[t]
        IN  /\ s.successful_calls + s.failed_calls = s.total_calls
            /\ s.total_calls > 0 =>
                   /\ s.average_execution_time.den # 0
                   /\ SameQuotient(s.average_execution_time,
                                   Quotient(s.total_execution_time, s.total_calls))

C6_Witness ==
    \E t \in DOMAIN tool_performance_stats :
        LET s == tool_performance_stats[t]
        IN  /\ s.total_calls = 3
            /\ s.successful_calls = 2
            /\ s.failed_calls = 1
            /\ s.total_execution_time = 4

\* the successes and the summed durations of a sequence of record calls
RECURSIVE Successes(_)
Successes(h) ==
    IF h = <<>> THEN 0
    ELSE (IF Head(h).success THEN 1 ELSE 0) + Successes(Tail(h))

RECURSIVE TotalDuration(_)
TotalDuration(h) ==
    IF h = <<>> THEN 0 ELSE Head(h).execution_time + TotalDuration(Tail(h))

\* C7: after N record calls for a tool name, k of them successful, the entry
\* of the tool has total_calls = N, successful_calls = k, failed_calls = N - k,
\* total_execution_time the sum of the recorded durations and the average
\* their arithmetic mean; equal calls are counted each.
C7_StatsCountEveryCall ==
    /\ DOMAIN tool_performance_stats = DOMAIN recorded
    /\ \A t \in DOMAIN recorded :
        LET s == tool_performance_stats[t]
            N == Len(recorded[t])
            k == Successes(recorded[t])
        IN  /\ s.total_calls = N
            /\ s.successful_calls = k
            /\ s.failed_calls = N - k
            /\ s.total_execution_time = TotalDuration(recorded[t])
            /\ s.average_execution_time.den # 0
            /\ SameQuotient(s.average_execution_time,
                            Quotient(TotalDuration(recorded[t]), N))

C7_Witness ==
    \E t \in DOMAIN recorded :
        /\ Len(recorded[t]) = 3
        /\ recorded[t][1] = recorded[t][2]
        /\ recorded[t][1].execution_time = 0
        /\ recorded[t][3].execution_time = 2
        /\ Successes(recorded[t]) = 1
        /\ tool_performance_stats[t].total_calls = 3

\* C8: a run of a workflow whose name is not in the registry returns at once a
\* result with success = FALSE, no results and the summary 'configuration not
\* found', and makes no dispatcher call.
C8_UnknownWorkflowFails ==
    [][(wf_runs' = wf_runs + 1 /\ wf_name' \notin DOMAIN workflows) =>
          /\ wf_pc' = "done"
          /\ wf_result'.success = FALSE
          /\ wf_result'.workflow_name = wf_name'
          /\ DOMAIN wf_result'.results = {}
          /\ wf_result'.execution_summary = <<"workflow configuration not found">>
          /\ dispatch_count' = dispatch_count
          /\ last_call' = last_call]_vars

C8_Witness ==
    /\ wf_pc = "done"
    /\ wf_name = "nonexistent"
    /\ wf_result.workflow_name = "nonexistent"
    /\ ~wf_result.success
    /\ dispatch_count = 0

\* C9: a run of a workflow that is in the registry returns success = TRUE once
\* its steps are over, whatever number of them returned a non-success result
\* or raised.
C9_WorkflowSucceedsRegardless ==
    (wf_pc = "done" /\ wf_name \in DOMAIN workflows) =>
        /\ wf_result.workflow_name = wf_name
        /\ wf_result.success = TRUE

C9_Witness ==
    /\ wf_pc = "done"
    /\ wf_name \in DOMAIN workflows
    /\ Len(wf_steps) = 2
    /\ wf_steps[1].outcome = "failed"
    /\ wf_steps[2].outcome = "raised"
    /\ wf_result.success

\* the steps dispatched so far are the configured ones, in order, one each
StepsInOrder ==
    wf_name \in DOMAIN workflows =>
        LET tools == workflows[wf_name].tools
        IN  /\ Len(wf_steps) <= Len(tools)
            /\ \A i \in 1..Len(wf_steps) :
                   /\ wf_steps[i].tool = tools[i].tool
                   /\ wf_steps[i].action = tools[i].action
            /\ wf_pc = "running" => wf_idx = Len(wf_steps) + 1
            /\ wf_pc = "done" =>
                   /\ Len(wf_steps) = Len(tools)
                   /\ wf_result.workflow_name = wf_name
                   /\ wf_result.metadata.total_steps = Len(tools)

\* C10: a workflow run dispatches every configured step once, in configured
\* order, one after the other; a step that fails or raises stops none of the
\* later ones, and the run ends with a workflow result.
C10_EveryStepRuns ==
    /\ []StepsInOrder
    /\ (wf_pc = "running") ~> (wf_pc = "done")

C10_Witness ==
    /\ wf_pc = "done"
    /\ wf_name = "daily_checkin"
    /\ Len(wf_steps) = 2
    /\ wf_steps[1].outcome = "raised"
    /\ wf_steps[2].outcome = "ok"

\* C11: for every completed run of a configured workflow, metadata.total_steps
\* is the number of steps configured for the workflow, whatever number of them
\* failed or raised; results holds at most total_steps entries; and
\* metadata.completed_steps is the number of entries present in results.
C11_StepCounts ==
    (wf_pc = "done" /\ wf_name \in DOMAIN InitialWorkflows) =>
        LET metadata == wf_result.metadata
        IN  /\ metadata.total_steps = Len(InitialWorkflows[wf_name].tools)
            /\ Cardinality(DOMAIN wf_result.results) <= metadata.total_steps
            /\ metadata.completed_steps = Cardinality(DOMAIN wf_result.results)

C11_Witness ==
    /\ wf_pc = "done"
    /\ wf_name = "daily_checkin"
    /\ wf_steps[1].outcome = "raised"
    /\ wf_steps[2].outcome = "failed"
    /\ wf_result.metadata.total_steps = 2
    /\ wf_result.metadata.completed_steps = 1
    /\ DOMAIN wf_result.results = {"calculator_calculate"}

\* C12: every parameter value of a workflow step that is the template token
\* is replaced by the caller's user_input before the step is dispatched,
\* whatever the key of the parameter is.
C12_TokenReplacedUnderAnyKey ==
    \A i \in 1..Len(wf_steps) :
        \A k \in DOMAIN wf_steps[i].configured :
            wf_steps[i].configured[k] = Token =>
                /\ k \in DOMAIN wf_steps[i].parameters
                /\ wf_steps[i].parameters[k] = wf_input

\* the templated steps dispatched so far in the current run received the
\* user_input of this run
TemplatedStepsGetInput ==
    wf_name \in DOMAIN InitialWorkflows =>
        \A i \in 1..Len(wf_steps) :
            LET template == InitialWorkflows[wf_name].tools[i].parameters
            IN  ("user_input" \in DOMAIN template /\ template["user_input"] = Token)
                    => wf_steps[i].parameters["user_input"] = wf_input

\* C13: execute_workflow_v2 leaves the registry as configured (the step list
\* and every step's parameters, the template token included), so that a
\* workflow run twice with inputs u1 then u2 dispatches its templated step
\* with u1 in the first run and with u2 in the second.
C13_RegistryReadOnly ==
    /\ workflows = InitialWorkflows
    /\ TemplatedStepsGetInput

\* the success lines execute_workflow_v2 can append for a step
SuccessLines(tool_name, action) ==
    {SuccessLine(tool_name, action, [mode_used |-> m, execution_time |-> t]) :
         m \in ToolMode, t \in 0..MaxDuration}

\* the failure lines execute_workflow_v2 can append for a step
FailureLines(tool_name, action) ==
    {FailureLine(tool_name, action, EnhancedFault)}

StepLines(tool_name, action) ==
    SuccessLines(tool_name, action) \cup FailureLines(tool_name, action)

\* C14: a workflow run appends one line per configured step to the execution
\* log, in step order, whether the step succeeded, returned a non-success
\* result or raised: after k steps the log has k lines, the i-th about the
\* i-th configured step, and the summary of a completed run of a workflow of
\* n steps has n lines.
C14_OneLinePerStep ==
    wf_name \in DOMAIN InitialWorkflows =>
        LET tools == InitialWorkflows[wf_name].tools
        IN  /\ Len(wf_summary) = Len(wf_steps)
            /\ \A i \in 1..Len(wf_summary) :
                   wf_summary[i] \in StepLines(tools[i].tool, tools[i].action)
            /\ wf_pc = "done" =>
                   /\ wf_result.execution_summary = wf_summary
                   /\ Len(wf_result.execution_summary) = Len(tools)

C14_Witness ==
    /\ wf_pc = "done"
    /\ wf_name = "daily_checkin"
    /\ wf_steps[1].outcome = "failed"
    /\ wf_steps[2].outcome = "raised"
    /\ Len(wf_result.execution_summary) = 2

\* C15: a workflow step that fails, by a result with success = FALSE or by a
\* raised dispatch, is logged in the execution summary as a failure line,
\* never as a success line.
C15_FailedStepLoggedAsFailure ==
    \A i \in 1..Len(wf_steps) :
        wf_steps[i].outcome # "ok" =>
            /\ i <= Len(wf_summary)
            /\ wf_summary[i] \notin SuccessLines(wf_steps[i].tool, wf_steps[i].action)

\* the tool names of tool_mapping, and the actions each one supports with the
\* backend operation it stands for
MappedTools == {"database_sqlite", "calculator", "brave_search", "filesystem", "time"}

SupportedOps(tool_name) ==
    CASE tool_name = "database_sqlite" -> ("query" :> "database_query")
      [] tool_name = "calculator" -> ("calculate" :> "calculator_calculate")
      [] tool_name = "brave_search" -> ("search" :> "brave_search")
      [] tool_name = "filesystem" ->
             ("read_file" :> "filesystem_read" @@ "write_file" :> "filesystem_write")
      [] tool_name = "time" -> ("get_time" :> "get_current_time")
      [] OTHER -> [a \in {} |-> ""]

\* the text of an exception ends with the action it is about
CarriesAction(detail, action) ==
    \E prefix \in {"unsupported database operation: ",
                   "unsupported calculator operation: ",
                   "unsupported search operation: ",
                   "unsupported filesystem operation: ",
                   "unsupported time operation: "} : detail = prefix \o action

\* C16: on the real path with an initialised real interface, an action
\* outside the supported set of a mapped tool fails with an unsupported-
\* operation error that carries the action and calls no backend operation; a
\* tool name outside the mapping goes to the generic pass-through call; a
\* supported (tool, action) pair invokes the matching backend operation.
C16_RealPathDispatch ==
    (last_real.iface /\ last_real.tool_name # "") =>
        LET t == last_real.tool_name
            a == last_real.action
            r == last_real.outcome
        IN  IF t \notin MappedTools
            THEN r.op = "call_tool"
            ELSE IF a \in DOMAIN SupportedOps(t)
            THEN r.op = SupportedOps(t)[a]
            ELSE /\ r.raised
                 /\ r.error.kind = "ValueError"
                 /\ CarriesAction(r.error.detail, a)
                 /\ r.op = "none"

C16_Witness ==
    /\ last_real.iface
    /\ last_real.tool_name = "time"
    /\ last_real.action = "delete"
    /\ last_real.outcome.raised
    /\ last_real.outcome.error.detail = "unsupported time operation: delete"
    /\ last_real.outcome.op = "none"

\* every entry of the statistics map is still there after the step, with
\* none of its counters smaller
StatsKept(before, after) ==
    \A t \in DOMAIN before :
        /\ t \in DOMAIN after
        /\ after[t].total_calls >= before[t].total_calls
        /\ after[t].successful_calls >= before[t].successful_calls
        /\ after[t].failed_calls >= before[t].failed_calls
        /\ after[t].total_execution_time >= before[t].total_execution_time

\* C17: per-tool statistics are never reset or decreased: over any sequence
\* of manager operations (initialize, dispatch, workflow run, tracker call,
\* report, health check, cleanup) an entry once created stays, and its
\* total_calls, successful_calls, failed_calls and total_execution_time
\* never decrease.
C17_StatsNeverDecrease ==
    [][StatsKept(tool_performance_stats, tool_performance_stats')]_vars

C17_Witness ==
    /\ "calculator" \in DOMAIN tool_performance_stats
    /\ tool_performance_stats["calculator"].total_calls = 2
    /\ tool_performance_stats["calculator"].failed_calls = 1
    /\ last_cleanup = "skipped"
    /\ last_report.legacy_stats = tool_performance_stats

\* C18: the mode_used of every result returned by dispatch names the backend
\* that produced the data, real or placeholder, and never the configured
\* hybrid mode, whatever mode the underlying enhanced call reports.
C18_ModeUsedNamesBackend ==
    (last_call.tool_name # "" /\ ~last_call.raised) =>
        /\ last_call.result.mode_used \in {"real_mcp", "placeholder"}
        /\ last_call.result.mode_used =
               (IF last_call.attempted[Len(last_call.attempted)] = "real"
                THEN "real_mcp" ELSE "placeholder")

\* the execution mode each ToolMode value selects
ModeTable ==
    ("real_mcp" :> "REAL" @@ "placeholder" :> "PLACEHOLDER" @@ "hybrid" :> "HYBRID")

\* the backends a dispatch tried are those of the configured mode: real only,
\* placeholder only, or real and then placeholder when real failed
BehaviourOfMode ==
    (last_call.tool_name # "" /\ ~last_call.raised) =>
        CASE tool_mode = "real_mcp" -> last_call.attempted = <<"real">>
          [] tool_mode = "placeholder" -> last_call.attempted = <<"placeholder">>
          [] tool_mode = "hybrid" ->
                 IF last_call.real.raised
                 THEN last_call.attempted = <<"real", "placeholder">>
                 ELSE last_call.attempted = <<"real">>

\* C19: the mode mapping is total and deterministic: every ToolMode value
\* selects one execution behaviour (REAL_MCP real only, PLACEHOLDER
\* placeholder only, HYBRID real then placeholder), the same on every
\* construction, and the configured mode stays as constructed for the
\* lifetime of the manager.
C19_ModeMappingFixed ==
    /\ [](/\ DOMAIN ModeTable = ToolMode
          /\ tool_mode \in ToolMode
          /\ enhanced_mode = ModeTable[tool_mode]
          /\ BehaviourOfMode)
    /\ [][tool_mode' = tool_mode /\ enhanced_mode' = enhanced_mode]_vars

C19_Witness ==
    /\ tool_mode = "hybrid"
    /\ enhanced_mode = "HYBRID"
    /\ direct_calls = 2
    /\ wf_runs = 2
    /\ last_init = "ok"
    /\ last_call.attempted = <<"real", "placeholder">>

\* the condition under which an advisory string is due, for a report summary
\* and a manager mode; a summary without a success rate counts as 100, one
\* without a number of calls as 0
AdviceDue(advice, summary, mode) ==
    CASE advice = LowSuccessAdvice -> Get(summary, "success_rate", 100) < 90
      [] advice = NoCallsAdvice -> Get(summary, "total_calls", 0) = 0
      [] advice = HybridNote -> mode = "hybrid"

\* C20: the recommendations of a report are the advisory strings in the fixed
\* order low-success-rate advice, zero-calls advice, hybrid-mode note, each
\* present exactly when its condition holds (summary success rate below 90,
\* summary total calls equal to 0, manager mode hybrid); the list depends on
\* the report and the mode only.
C20_RecommendationsInOrder ==
    last_report.tool_mode # "" =>
        last_report.recommendations =
            SelectSeq(<<LowSuccessAdvice, NoCallsAdvice, HybridNote>>,
                      LAMBDA advice :
                          AdviceDue(advice, last_report.summary, last_report.tool_mode))

C20_Witness ==
    /\ last_report.tool_mode = "hybrid"
    /\ last_report.summary = ("success_rate" :> 89 @@ "total_calls" :> 0)
    /\ last_report.recommendations = <<LowSuccessAdvice, NoCallsAdvice, HybridNote>>

\* C21: health_check returns a status mapping and does not raise: the
\* placeholder backend is reported available; the real backend is reported
\* available, with its tool count, exactly when a real interface exists and
\* listing its tools succeeds; as an error string, without a count, when
\* listing raises; and as not available, without a count, when there is no
\* real interface.
C21_HealthStatus ==
    last_health.tool_mode # "" =>
        /\ last_health.tool_mode = tool_mode
        /\ last_health.placeholder_interface = "available"
        /\ CASE ~last_health.iface ->
                    /\ last_health.real_mcp_interface = "not_available"
                    /\ ~last_health.counted
             [] last_health.iface /\ last_health.listing = "ok" ->
                    /\ last_health.real_mcp_interface = "available"
                    /\ last_health.counted
                    /\ last_health.real_mcp_tools_count \in 0..MaxTools
             [] last_health.iface /\ last_health.listing = "raised" ->
                    /\ last_health.real_mcp_interface
                           = "error: list_available_tools failed"
                    /\ ~last_health.counted

C21_Witness ==
    /\ last_health.iface
    /\ last_health.listing = "raised"
    /\ last_health.real_mcp_interface = "error: list_available_tools failed"
    /\ last_health.placeholder_interface = "available"
    /\ dispatch_count > 0

\* C22: every manager instance the accessor get_mcp_tools_manager_v2 returns
\* has completed initialize() without an exception before it is returned,
\* for every interleaving of concurrent accessor calls and for calls that
\* follow a call whose initialize() raised; and initialize() runs at most
\* once per process.
C22_ReturnedManagerInitialized ==
    /\ \A t \in Tasks :
           accessor_pc[t] = "returned" => accessor_got[t] \in {"ok", "swallowed"}
    /\ initialize_runs <= 1

\* the part of it that holds: initialize() runs at most once
InitializeAtMostOnce == initialize_runs <= 1

\* C23: in a workflow run in which no dispatch raises, completed_steps equals
\* total_steps and results holds one entry per configured step, for every
\* workflow configuration, those with two steps of the same tool name and
\* action included.
C23_OneResultPerStep ==
    (/\ wf_pc = "done"
     /\ wf_name \in DOMAIN InitialWorkflows
     /\ \A i \in 1..Len(wf_steps) : wf_steps[i].outcome # "raised") =>
        /\ wf_result.metadata.completed_steps = wf_result.metadata.total_steps
        /\ Cardinality(DOMAIN wf_result.results)
               = Len(InitialWorkflows[wf_name].tools)

====
